---- MODULE Spec2Model ----
(***************************************************************************)
(* A model of the shared utilities of lume (core/utils.ts):                *)
(*   - concurrent(): the bounded-concurrency runner,                       *)
(*   - mustNotifyUpgrade(): the upgrade check with its 24h cache,          *)
(*   - merge(): the recursive option merge.                                *)
(* Each part has its own specification over its own variables.             *)
(***************************************************************************)
EXTENDS Integers, Sequences, FiniteSets, TLC

(***************************************************************************)
(* Bounds of the model.                                                    *)
(***************************************************************************)
MaxItems == 3
MaxLimit == 3

ItemValues == {"a", "b"}

VARIABLES
  \* ---- concurrent() ----
  items,      \* the source: a finite sequence of item values
  limit,      \* the third argument of concurrent()
  next,       \* number of items pulled from the source so far
  worker,     \* worker[i]: state of the promise iteratorFn(item i) returned
  p,          \* p[i]: state of the derived promise p of item i
  executing,  \* the array `executing`, holding handles (item indices)
  invoked,    \* invoked[i]: how often iteratorFn was called for item i
  pc,         \* where the async function concurrent() stands
  awaited,    \* the handles the pending Promise.race / Promise.all iterated
  waitState   \* state of that Promise.race / Promise.all promise

runVars == <<items, limit, next, worker, p, executing, invoked, pc, awaited,
             waitState>>


(***************************************************************************)
(* merge(defaults, user)                                                   *)
(***************************************************************************)
VARIABLES
  \* ---- merge() ----
  defaults,   \* first argument
  user,       \* second argument
  merged,     \* the returned value
  mpc         \* "call" before, "done" after the call

mergeVars == <<defaults, user, merged, mpc>>

VARIABLES
  \* ---- merge() on objects with identity ----
  heap,       \* the objects: heap[a] is the object at address a
  heap0,      \* the objects as they were before the call
  hdefaults,  \* address of the first argument
  huser,      \* address of the second argument, 0 when it is absent
  hmerged,    \* address of the returned object, 0 before the call
  hpc         \* "call" before, "done" after the call

heapVars == <<heap, heap0, hdefaults, huser, hmerged, hpc>>

VARIABLES
  \* ---- getImportMap() ----
  userMap,    \* first argument, an object that resolveImportMap changes
  userMap0,   \* first argument as it was before the call
  url,        \* second argument
  imap,       \* the returned import map
  ipc         \* "call" before, "done" or "threw" after the call

mapVars == <<userMap, userMap0, url, imap, ipc>>

VARIABLES
  \* ---- mustNotifyUpgrade() in two processes ----
  rstore,     \* localStorage entry "lume-upgrade", shared by the processes
  rstore0,    \* the entry before either process ran
  rnow,       \* the clock of the machine
  rticks,     \* number of clock steps taken
  rpc,        \* rpc[q]: where process q stands in its call
  rseen,      \* rseen[q]: what getItem returned to process q
  rcalls,     \* rcalls[q]: calls process q has started
  rlog        \* times of the network checks, in the order they were issued

raceVars == <<rstore, rstore0, rnow, rticks, rpc, rseen, rcalls, rlog>>

VARIABLES
  \* ---- the import-map command ----
  file,       \* what is found at the file argument of the command
  file0,      \* what was found there before the command ran
  updated,    \* the local updated
  report,     \* the line the command logs, "" while it has logged none
  kpc         \* where the command stands

cliVars == <<file, file0, updated, report, kpc>>

restVars == <<heapVars, mapVars, raceVars, cliVars>>

(***************************************************************************)
(* Strings are sequences of one-character strings.                         *)
(***************************************************************************)
Digits == <<"0", "1", "2", "3", "4", "5", "6", "7", "8", "9">>

IsDigit(ch) == \E d \in 1..10 : Digits[d] = ch
DigitVal(ch) == (CHOOSE d \in 1..10 : Digits[d] = ch) - 1

\* Number.prototype.toString() of a non-negative integer
RECURSIVE NumberToString(_)
NumberToString(n) ==
  IF n < 10 THEN <<Digits[n + 1]>>
  ELSE Append(NumberToString(n \div 10), Digits[(n % 10) + 1])

\* parseInt(str): leading blanks are skipped, then the longest run of decimal
\* digits is read; without a digit the result is NaN
RECURSIVE SkipBlanks(_, _)
SkipBlanks(str, k) ==
  IF k <= Len(str) /\ str[k] = " " THEN SkipBlanks(str, k + 1) ELSE k

RECURSIVE ParseDigits(_, _, _, _)
ParseDigits(str, k, acc, seen) ==
  IF k <= Len(str) /\ IsDigit(str[k])
    THEN ParseDigits(str, k + 1, acc * 10 + DigitVal(str[k]), TRUE)
    ELSE [nan |-> ~seen, n |-> acc]

ParseInt(str) == ParseDigits(str, SkipBlanks(str, 1), 0, FALSE)

StartsWith(str, prefix) ==
  /\ Len(str) >= Len(prefix)
  /\ \A k \in 1..Len(prefix) : str[k] = prefix[k]

(***************************************************************************)
(* getCurrentVersion() and the classification of the version               *)
(***************************************************************************)
\* pathname.match(/@([^/]+)/): the first "@" that a character other than "/"
\* follows; 0 when the pattern does not match
TagStart(pathname) ==
  LET hits == {k \in 1..(Len(pathname) - 1) :
                 pathname[k] = "@" /\ pathname[k + 1] # "/"}
  IN IF hits = {} THEN 0
     ELSE CHOOSE k \in hits : \A j \in hits : k <= j

\* the capture group: the characters after the "@" up to the next "/"
TagEnd(pathname, from) ==
  LET stops == {k \in from..Len(pathname) : pathname[k] = "/"}
  IN IF stops = {} THEN Len(pathname)
     ELSE (CHOOSE k \in stops : \A j \in stops : k <= j) - 1

GetCurrentVersion(pathname) ==
  IF TagStart(pathname) = 0
    THEN <<"l", "o", "c", "a", "l", " ", "(">> \o pathname \o <<")">>
    ELSE SubSeq(pathname, TagStart(pathname) + 1,
                TagEnd(pathname, TagStart(pathname) + 1))

\* current.startsWith("local ")
IsLocalNever(current) == FALSE
IsLocal(current) == StartsWith(current, <<"l", "o", "c", "a", "l", " ">>)

\* !!current.match(/^v\d+\./)
RECURSIVE SkipDigits(_, _)
SkipDigits(str, k) ==
  IF k <= Len(str) /\ IsDigit(str[k]) THEN SkipDigits(str, k + 1) ELSE k

IsStable(current) ==
  /\ Len(current) >= 3
  /\ current[1] = "v"
  /\ IsDigit(current[2])
  /\ SkipDigits(current, 2) <= Len(current)
  /\ current[SkipDigits(current, 2)] = "."

(***************************************************************************)
(* mustNotifyUpgrade()                                                     *)
(***************************************************************************)
expires == 1000 * 60 * 60 * 24
Hour == 1000 * 60 * 60

\* Bounds of the upgrade model
MaxCalls == 3
MaxTicks == 2

Calls == 1..MaxCalls

\* how far the clock can move between the two reads of Date.now()
Drift == {0, 1}
\* how far the clock moves between two steps of the process
TickSteps == {1, expires - 1}
\* the clock when the process starts
StartTime == 3 * expires

PathStable == <<"/", "x", "/", "l", "@", "v", "1", ".", "2", "/">>
PathNoDot  == <<"/", "x", "/", "l", "@", "v", "1", "/">>
PathDev    == <<"/", "g", "/", "l", "@", "a", "b", "c", "/">>
PathLocal  == <<"/", "h", "/", "l", "/">>
PathAtDir  == <<"/", "u", "@", "h", "/", "l", "/">>
Pathnames == {PathStable, PathNoDot, PathDev, PathLocal, PathAtDir}

\* what the two endpoints can answer as the latest version
LatestValues == {<<"v", "1", ".", "2">>, <<"v", "1", ".", "3">>,
                 <<"a", "b", "c">>}

NoItem == [set |-> FALSE, value |-> <<>>]
Item(str) == [set |-> TRUE, value |-> str]

NoInfo == [none |-> TRUE, current |-> <<>>, latest |-> <<>>, command |-> ""]

VARIABLES
  \* ---- mustNotifyUpgrade() ----
  pathname,   \* baseUrl.pathname of the running instance
  now,        \* the clock, what Date.now() returns
  ticks,      \* number of clock steps taken
  storage,    \* localStorage entry "lume-upgrade"
  storage0,   \* the entry as it was when the process started
  lastCheck,  \* the time of the last network check recorded in the entry, or -1
  cpc,        \* cpc[c]: where call c of mustNotifyUpgrade() stands
  ccalled,    \* ccalled[c]: Date.now() when call c compared the timestamp
  cseen,      \* cseen[c]: lastCheck as it was when call c started
  cend,       \* cend[c]: the endpoint call c fetched
  ctime,      \* ctime[c]: when call c issued its network check
  cgot,       \* cgot[c]: the latest version the endpoint returned to call c
  cres,       \* cres[c]: what call c returned
  reads,      \* reads[c]: localStorage.getItem calls of call c
  writes,     \* writes[c]: localStorage.setItem calls of call c
  fetches     \* fetches[c]: fetch calls of call c

upVars == <<pathname, now, ticks, storage, storage0, lastCheck, cpc, ccalled,
            cseen, cend, ctime, cgot, cres, reads, writes, fetches>>

\* interval is truthy: neither null nor the empty string
Truthy(item) == item.set /\ Len(item.value) > 0

\* interval && parseInt(interval) + expires > Date.now()
FreshNever(interval, t) == FALSE
FreshInclusive(interval, t) ==
  /\ Truthy(interval)
  /\ ~ParseInt(interval.value).nan
  /\ ParseInt(interval.value).n + expires >= t
Fresh(interval, t) ==
  /\ Truthy(interval)
  /\ ~ParseInt(interval.value).nan
  /\ ParseInt(interval.value).n + expires > t

\* stable ? getLatestVersion() : getLatestDevelopmentVersion()
Endpoint(current) == IF IsStable(current) THEN "versions" ELSE "commits"

\* stable ? "lume upgrade" : "lume upgrade --dev"
CommandStableOnly(current) == "lume upgrade"
Command(current) ==
  IF IsStable(current) THEN "lume upgrade" ELSE "lume upgrade --dev"

\* the entry after a check was suppressed: the function returns, nothing is
\* written
AfterSuppressedTouches(item, t) == [set |-> TRUE, value |-> NumberToString(t)]
AfterSuppressed(item, t) == item

\* the entry after a fetch failed: nothing catches the error, nothing is undone
AfterFailureClears(item) == NoItem
AfterFailure(item) == item

UpInit ==
  /\ pathname \in Pathnames
  /\ now = StartTime
  /\ ticks = 0
  /\ lastCheck \in {-1, StartTime - Hour, StartTime - expires,
                    StartTime - expires + 1}
  /\ storage = (IF lastCheck < 0 THEN NoItem ELSE Item(NumberToString(lastCheck)))
  /\ storage0 = storage
  /\ cpc = [c \in Calls |-> "idle"]
  /\ ccalled = [c \in Calls |-> -1]
  /\ cseen = [c \in Calls |-> -1]
  /\ cend = [c \in Calls |-> "none"]
  /\ ctime = [c \in Calls |-> -1]
  /\ cgot = [c \in Calls |-> <<>>]
  /\ cres = [c \in Calls |-> NoInfo]
  /\ reads = [c \in Calls |-> 0]
  /\ writes = [c \in Calls |-> 0]
  /\ fetches = [c \in Calls |-> 0]

\* calls are numbered in the order they are made
CanCall(c) ==
  /\ cpc[c] = "idle"
  /\ \A b \in Calls : b < c => cpc[b] # "idle"

\* the clock moves
Tick(d) ==
  /\ ticks < MaxTicks
  /\ ticks' = ticks + 1
  /\ now' = now + d
  /\ UNCHANGED <<pathname, storage, storage0, lastCheck, cpc, ccalled, cseen,
                 cend, ctime, cgot, cres, reads, writes, fetches>>
  /\ UNCHANGED <<runVars, mergeVars, restVars>>

\* a call on a local version returns at once
CallLocal(c) ==
  /\ CanCall(c)
  /\ IsLocal(GetCurrentVersion(pathname))
  /\ cpc' = [cpc EXCEPT ![c] = "done"]
  /\ ccalled' = [ccalled EXCEPT ![c] = now]
  /\ cseen' = [cseen EXCEPT ![c] = lastCheck]
  /\ UNCHANGED <<pathname, now, ticks, storage, storage0, lastCheck, cend,
                 ctime, cgot, cres, reads, writes, fetches>>
  /\ UNCHANGED <<runVars, mergeVars, restVars>>

\* a call that finds a timestamp younger than a day returns
CallCached(c) ==
  /\ CanCall(c)
  /\ ~IsLocal(GetCurrentVersion(pathname))
  /\ Fresh(storage, now)
  /\ reads' = [reads EXCEPT ![c] = @ + 1]
  /\ cpc' = [cpc EXCEPT ![c] = "done"]
  /\ ccalled' = [ccalled EXCEPT ![c] = now]
  /\ cseen' = [cseen EXCEPT ![c] = lastCheck]
  /\ storage' = AfterSuppressed(storage, now)
  /\ UNCHANGED <<pathname, now, ticks, storage0, lastCheck, cend,
                 ctime, cgot, cres, writes, fetches>>
  /\ UNCHANGED <<runVars, mergeVars, restVars>>

\* a call that writes the timestamp and starts the fetch it then awaits
CallFetches(c, d) ==
  /\ CanCall(c)
  /\ ~IsLocal(GetCurrentVersion(pathname))
  /\ ~Fresh(storage, now)
  /\ reads' = [reads EXCEPT ![c] = @ + 1]
  /\ ccalled' = [ccalled EXCEPT ![c] = now]
  /\ cseen' = [cseen EXCEPT ![c] = lastCheck]
  /\ now' = now + d
  /\ storage' = Item(NumberToString(now'))
  /\ lastCheck' = now'
  /\ writes' = [writes EXCEPT ![c] = @ + 1]
  /\ cend' = [cend EXCEPT ![c] = Endpoint(GetCurrentVersion(pathname))]
  /\ ctime' = [ctime EXCEPT ![c] = now']
  /\ fetches' = [fetches EXCEPT ![c] = @ + 1]
  /\ cpc' = [cpc EXCEPT ![c] = "fetching"]
  /\ UNCHANGED <<pathname, ticks, storage0, cgot, cres>>
  /\ UNCHANGED <<runVars, mergeVars, restVars>>

\* the endpoint answers: compare and return
FetchReturns(c, latest) ==
  /\ cpc[c] = "fetching"
  /\ cgot' = [cgot EXCEPT ![c] = latest]
  /\ cres' = [cres EXCEPT ![c] =
       IF GetCurrentVersion(pathname) = latest THEN NoInfo
       ELSE [none |-> FALSE, current |-> GetCurrentVersion(pathname),
             latest |-> latest,
             command |-> Command(GetCurrentVersion(pathname))]]
  /\ cpc' = [cpc EXCEPT ![c] = "done"]
  /\ UNCHANGED <<pathname, now, ticks, storage, storage0, lastCheck, ccalled,
                 cseen, cend, ctime, reads, writes, fetches>>
  /\ UNCHANGED <<runVars, mergeVars, restVars>>

\* the fetch fails: the error leaves mustNotifyUpgrade() uncaught
FetchFails(c) ==
  /\ cpc[c] = "fetching"
  /\ cpc' = [cpc EXCEPT ![c] = "threw"]
  /\ storage' = AfterFailure(storage)
  /\ UNCHANGED <<pathname, now, ticks, storage0, lastCheck, ccalled, cseen,
                 cend, ctime, cgot, cres, reads, writes, fetches>>
  /\ UNCHANGED <<runVars, mergeVars, restVars>>

UpNext ==
  \/ \E d \in TickSteps : Tick(d)
  \/ \E c \in Calls : CallLocal(c)
  \/ \E c \in Calls : CallCached(c)
  \/ \E c \in Calls, d \in Drift : CallFetches(c, d)
  \/ \E c \in Calls, latest \in LatestValues : FetchReturns(c, latest)
  \/ \E c \in Calls : FetchFails(c)

(***************************************************************************)
(* Option trees: a value is a scalar, a sequence, a marked element (an     *)
(* object whose $$typeof is the react.element symbol) or a mapping.        *)
(***************************************************************************)
MaxScalar == 1

Keys == {"a", "b"}

ScalarV(n) == [kind |-> "scalar", val |-> n]
SeqV(sq) == [kind |-> "seq", val |-> sq]
ElementV(n) == [kind |-> "element", val |-> n]
MapV(f) == [kind |-> "map", val |-> f]

Scalars == {ScalarV(n) : n \in 1..MaxScalar}
InnerLeaves == Scalars \cup {SeqV(<<3>>)}
Leaves == InnerLeaves \cup {SeqV(<<1, 2>>), ElementV(1)}

\* the objects with keys among Keys and values in vals
MapsOver(vals) == UNION {[ks -> vals] : ks \in SUBSET Keys}

Maps1 == MapsOver(InnerLeaves)
Maps2 == MapsOver(Leaves \cup {MapV(f) : f \in Maps1})
Maps3 == {("a" :> MapV("b" :> MapV(f))) : f \in Maps1}
Trees == Maps2 \cup Maps3

Absent == [present |-> FALSE, val |-> <<>>]
Present(f) == [present |-> TRUE, val |-> f]

\* isPlainObject(obj)
IsPlainObjectNever(v) == FALSE
IsPlainObject(v) == v.kind = "map"

\* merged[key] = value
Put(f, k, v) == [x \in (DOMAIN f) \cup {k} |-> IF x = k THEN v ELSE f[x]]

\* merge(defaults, user): the copy of defaults is overwritten entry by entry
RECURSIVE MergeEntries(_, _, _)
MergeEntries(acc, usr, todo) ==
  IF todo = {} THEN acc
  ELSE LET key == CHOOSE k \in todo : TRUE
           value == usr[key]
       IN IF key \in DOMAIN acc /\ IsPlainObject(acc[key])
             /\ IsPlainObject(value)
            THEN MergeEntries(
                   Put(acc, key,
                       MapV(MergeEntries(acc[key].val, value.val,
                                         DOMAIN value.val))),
                   usr, todo \ {key})
            ELSE MergeEntries(Put(acc, key, value), usr, todo \ {key})

Merge(dflt, usr) ==
  IF ~usr.present THEN dflt
  ELSE MergeEntries(dflt, usr.val, DOMAIN usr.val)

MergeInit ==
  /\ defaults \in Trees
  /\ user \in {Absent} \cup {Present(f) : f \in Trees}
  /\ merged = <<>>
  /\ mpc = "call"

CallMerge ==
  /\ mpc = "call"
  /\ merged' = Merge(defaults, user)
  /\ mpc' = "done"
  /\ UNCHANGED <<defaults, user>>
  /\ UNCHANGED <<runVars, upVars, restVars>>

MergeNext == CallMerge

(***************************************************************************)
(* merge() on objects with identity. An object lives at an address of the  *)
(* heap; a field holds a scalar, a sequence, a marked element, or the      *)
(* address of a plain object (kind "map"). Sequences and elements are      *)
(* never written by merge() and are kept as values.                        *)
(***************************************************************************)
RefV(a) == [kind |-> "map", val |-> a]

\* const merged = { ...defaults }: a new object with the fields of defaults
AllocAlias(h, d) == [heap |-> h, addr |-> d]
Alloc(h, d) == [heap |-> Append(h, h[d]), addr |-> Len(h) + 1]

\* merged[key] = value, on the object at address a
Write(h, a, key, v) == [h EXCEPT ![a] = Put(@, key, v)]

RECURSIVE HMerge(_, _, _)
RECURSIVE HMergeEntries(_, _, _, _)
\* the loop over Object.entries(user), taken when the loop starts
HMergeEntries(h, a, entries, todo) ==
  IF todo = {} THEN h
  ELSE LET key == CHOOSE k \in todo : TRUE
           value == entries[key]
       IN IF key \in DOMAIN h[a] /\ IsPlainObject(h[a][key])
             /\ IsPlainObject(value)
            THEN LET r == HMerge(h, h[a][key].val, value.val)
                 IN HMergeEntries(Write(r.heap, a, key, RefV(r.addr)),
                                  a, entries, todo \ {key})
            ELSE HMergeEntries(Write(h, a, key, value), a, entries,
                               todo \ {key})

\* merge(defaults, user) with both given by address, user 0 when absent
HMerge(h, d, u) ==
  IF u = 0 THEN Alloc(h, d)
  ELSE [heap |-> HMergeEntries(Alloc(h, d).heap, Alloc(h, d).addr,
                               Alloc(h, d).heap[u], DOMAIN h[u]),
        addr |-> Alloc(h, d).addr]

\* the tree an address stands for
RECURSIVE ValueAt(_, _)
ValueAt(h, a) ==
  [k \in DOMAIN h[a] |->
     IF h[a][k].kind = "map" THEN MapV(ValueAt(h, h[a][k].val))
     ELSE h[a][k]]

\* The objects before the call: defaults at 1, user at 2, and two nested
\* objects at 3 and 4 that both arguments can hold, also both the same one.
TopValues == {SeqV(<<1, 2>>), RefV(3), RefV(4)}
NestedValues == InnerLeaves \cup {RefV(3)}

HeapInit ==
  /\ heap0 \in {<<o1, o2, o3, o4>> :
                  o1 \in MapsOver(TopValues), o2 \in MapsOver(TopValues),
                  o3 \in MapsOver(InnerLeaves), o4 \in MapsOver(NestedValues)}
  /\ heap = heap0
  /\ hdefaults = 1
  /\ huser \in {0, 2}
  /\ hmerged = 0
  /\ hpc = "call"

CallHMerge ==
  /\ hpc = "call"
  /\ heap' = HMerge(heap, hdefaults, huser).heap
  /\ hmerged' = HMerge(heap, hdefaults, huser).addr
  /\ hpc' = "done"
  /\ UNCHANGED <<heap0, hdefaults, huser>>
  /\ UNCHANGED <<runVars, upVars, mergeVars, mapVars, raceVars, cliVars>>

HeapNext == CallHMerge

(***************************************************************************)
(* mustNotifyUpgrade() called by two processes that share localStorage.    *)
(* Nothing locks the entry: a process can be overtaken between getItem,    *)
(* the comparison and setItem. The instance is a tagged, non-local one.    *)
(***************************************************************************)
Procs == {1, 2}

\* Bounds of the two-process model
MaxProcCalls == 2
MaxRaceTicks == 2

RaceInit ==
  /\ rstore0 \in {NoItem, Item(NumberToString(StartTime - Hour)),
                  Item(NumberToString(StartTime - expires))}
  /\ rstore = rstore0
  /\ rnow = StartTime
  /\ rticks = 0
  /\ rpc = [q \in Procs |-> "idle"]
  /\ rseen = [q \in Procs |-> NoItem]
  /\ rcalls = [q \in Procs |-> 0]
  /\ rlog = <<>>

RaceTick(d) ==
  /\ rticks < MaxRaceTicks
  /\ rticks' = rticks + 1
  /\ rnow' = rnow + d
  /\ UNCHANGED <<rstore, rstore0, rpc, rseen, rcalls, rlog>>
  /\ UNCHANGED <<runVars, upVars, mergeVars, heapVars, mapVars, cliVars>>

\* const interval = localStorage.getItem("lume-upgrade")
RaceRead(q) ==
  /\ rpc[q] = "idle"
  /\ rcalls[q] < MaxProcCalls
  /\ rcalls' = [rcalls EXCEPT ![q] = @ + 1]
  /\ rseen' = [rseen EXCEPT ![q] = rstore]
  /\ rpc' = [rpc EXCEPT ![q] = "read"]
  /\ UNCHANGED <<rstore, rstore0, rnow, rticks, rlog>>
  /\ UNCHANGED <<runVars, upVars, mergeVars, heapVars, mapVars, cliVars>>

\* the timestamp that was read is younger than a day: return
RaceSuppressed(q) ==
  /\ rpc[q] = "read"
  /\ Fresh(rseen[q], rnow)
  /\ rpc' = [rpc EXCEPT ![q] = "idle"]
  /\ UNCHANGED <<rstore, rstore0, rnow, rticks, rseen, rcalls, rlog>>
  /\ UNCHANGED <<runVars, upVars, mergeVars, heapVars, mapVars, cliVars>>

\* it is not: go on to the write
RaceStale(q) ==
  /\ rpc[q] = "read"
  /\ ~Fresh(rseen[q], rnow)
  /\ rpc' = [rpc EXCEPT ![q] = "stale"]
  /\ UNCHANGED <<rstore, rstore0, rnow, rticks, rseen, rcalls, rlog>>
  /\ UNCHANGED <<runVars, upVars, mergeVars, heapVars, mapVars, cliVars>>

\* localStorage.setItem("lume-upgrade", Date.now().toString()), then the fetch
RaceWrite(q) ==
  /\ rpc[q] = "stale"
  /\ rstore' = Item(NumberToString(rnow))
  /\ rlog' = Append(rlog, rnow)
  /\ rpc' = [rpc EXCEPT ![q] = "idle"]
  /\ UNCHANGED <<rstore0, rnow, rticks, rseen, rcalls>>
  /\ UNCHANGED <<runVars, upVars, mergeVars, heapVars, mapVars, cliVars>>

RaceNext ==
  \/ \E d \in TickSteps : RaceTick(d)
  \/ \E q \in Procs : RaceRead(q)
  \/ \E q \in Procs : RaceSuppressed(q)
  \/ \E q \in Procs : RaceStale(q)
  \/ \E q \in Procs : RaceWrite(q)

(***************************************************************************)
(* URLs. A URL string is the sequence of its pieces between the "/"s:      *)
(* "https://cdn/x.js" is <<"https:", "", "cdn", "x.js">> and "./bar.js" is *)
(* <<".", "bar.js">>.                                                      *)
(***************************************************************************)
Schemes == {"https:", "file:"}

HasScheme(str) == Len(str) >= 1 /\ str[1] \in Schemes

\* the path of a URL, after "scheme://host"
PathOf(str) == SubSeq(str, 4, Len(str))

Front(sq) == SubSeq(sq, 1, Len(sq) - 1)

\* "." and ".." segments are removed as the path is read; a path that ends in
\* one of them ends in "/"
RECURSIVE RemoveDots(_, _, _)
RemoveDots(path, k, out) ==
  IF k > Len(path) THEN (IF out = <<>> THEN <<"">> ELSE out)
  ELSE LET end == IF k = Len(path) THEN <<"">> ELSE <<>>
           up == IF out = <<>> THEN out ELSE Front(out)
       IN CASE path[k] = "." -> RemoveDots(path, k + 1, out \o end)
            [] path[k] = ".." -> RemoveDots(path, k + 1, up \o end)
            [] OTHER -> RemoveDots(path, k + 1, Append(out, path[k]))

\* new URL(str, base) throws: an absolute URL without "//" or, other than for
\* file:, without a host
Invalid(str) ==
  /\ HasScheme(str)
  /\ \/ Len(str) < 3
     \/ str[2] # ""
     \/ (str[1] # "file:" /\ str[3] = "")

\* new URL(str, base).href for a str that is not Invalid: a str with a scheme
\* is parsed on its own, one that starts with "/" replaces the path of base,
\* any other is read from the directory of base
ResolveOntoFile(str, base) ==
  IF HasScheme(str)
    THEN SubSeq(str, 1, 3) \o RemoveDots(PathOf(str), 1, <<>>)
  ELSE IF str[1] = ""
    THEN SubSeq(base, 1, 3) \o RemoveDots(Tail(str), 1, <<>>)
  ELSE SubSeq(base, 1, 3) \o RemoveDots(PathOf(base) \o str, 1, <<>>)
Resolve(str, base) ==
  IF HasScheme(str)
    THEN SubSeq(str, 1, 3) \o RemoveDots(PathOf(str), 1, <<>>)
  ELSE IF str[1] = ""
    THEN SubSeq(base, 1, 3) \o RemoveDots(Tail(str), 1, <<>>)
  ELSE SubSeq(base, 1, 3) \o RemoveDots(Front(PathOf(base)) \o str, 1, <<>>)

(***************************************************************************)
(* resolveSpecifierMap(), resolveImportMap(), getImportMap()               *)
(***************************************************************************)
\* import.meta.url of core/utils.ts and baseUrl = new URL("../", import.meta.url)
ModuleUrl == <<"https:", "", "deno.land", "x", "lume", "core", "utils.ts">>
baseUrl == Resolve(<<"..", "">>, ModuleUrl)

Specifiers == {"lume", "foo"}
ScopedSpecifiers == {"foo"}
ScopeKeys == {"/a/", "/b/"}

RelDot   == <<".", "bar.js">>
RelUp    == <<"..", "x.js">>
RelRoot  == <<"", "r.js">>
AbsNorm  == <<"https:", "", "cdn", "x.js">>
AbsDots  == <<"https:", "", "cdn", "a", "..", "x.js">>
BadUrl   == <<"https:", "", "">>
Targets == {RelDot, RelUp, RelRoot, AbsNorm, AbsDots, BadUrl}

BaseDir  == <<"https:", "", "example.com", "project", "">>
BaseFile == <<"file:", "", "", "p", "map.json">>
BaseUrls == {BaseDir, BaseFile}

PartialMaps(ks, vals) == UNION {[d -> vals] : d \in SUBSET ks}

NoUrl == [present |-> FALSE, href |-> <<>>]
NoMap == [present |-> FALSE, imports |-> <<>>, hasScopes |-> FALSE,
          scopes |-> <<>>]

UserMaps ==
  {[present |-> TRUE, imports |-> im, hasScopes |-> FALSE, scopes |-> <<>>] :
     im \in PartialMaps(Specifiers, Targets)}
  \cup
  {[present |-> TRUE, imports |-> im, hasScopes |-> TRUE, scopes |-> sc] :
     im \in PartialMaps(Specifiers, Targets),
     sc \in PartialMaps(ScopeKeys, PartialMaps(ScopedSpecifiers, Targets))}

\* the orders in which Object.entries can list the keys ks
Orders(ks) ==
  {ord \in [1..Cardinality(ks) -> ks] :
     \A j, k \in 1..Cardinality(ks) : ord[j] = ord[k] => j = k}

\* resolveSpecifierMap(specifierMap, baseUrl): the entries are rewritten one
\* after the other, the first Invalid target ends the loop with a TypeError
RECURSIVE ResolveSpecifierMap(_, _, _, _)
ResolveSpecifierMap(sm, base, ord, k) ==
  IF k > Len(ord) THEN [ok |-> TRUE, map |-> sm]
  ELSE IF ord[k] \notin DOMAIN sm
    THEN ResolveSpecifierMap(sm, base, ord, k + 1)
  ELSE IF Invalid(sm[ord[k]]) THEN [ok |-> FALSE, map |-> sm]
  ELSE ResolveSpecifierMap([sm EXCEPT ![ord[k]] = Resolve(@, base)],
                           base, ord, k + 1)

\* the loop of resolveImportMap over Object.values(importMap.scopes)
RECURSIVE ResolveScopes(_, _, _, _, _)
ResolveScopes(sc, base, sord, ord, k) ==
  IF k > Len(sord) THEN [ok |-> TRUE, map |-> sc]
  ELSE IF sord[k] \notin DOMAIN sc
    THEN ResolveScopes(sc, base, sord, ord, k + 1)
  ELSE LET r == ResolveSpecifierMap(sc[sord[k]], base, ord, 1)
       IN IF r.ok
            THEN ResolveScopes([sc EXCEPT ![sord[k]] = r.map], base, sord,
                               ord, k + 1)
            ELSE [ok |-> FALSE, map |-> [sc EXCEPT ![sord[k]] = r.map]]

\* resolveImportMap(importMap, baseUrl): what it leaves in importMap
ResolveImportMap(um, base, ord, sord) ==
  LET ri == ResolveSpecifierMap(um.imports, base, ord, 1)
      rs == ResolveScopes(um.scopes, base, sord, ord, 1)
  IN IF ~ri.ok THEN [ok |-> FALSE, map |-> [um EXCEPT !.imports = ri.map]]
     ELSE IF ~um.hasScopes
       THEN [ok |-> TRUE, map |-> [um EXCEPT !.imports = ri.map]]
     ELSE [ok |-> rs.ok,
           map |-> [um EXCEPT !.imports = ri.map, !.scopes = rs.map]]

\* the map getImportMap() starts from
CanonicalImports ==
  [k \in {"lume", "lume/", "https://deno.land/x/lume/"} |->
     IF k = "lume" THEN Resolve(<<".", "mod.ts">>, baseUrl)
     ELSE Resolve(<<".", "">>, baseUrl)]

\* { ...a, ...b }
OverlayFirstWins(a, b) ==
  [k \in (DOMAIN a) \cup (DOMAIN b) |-> IF k \in DOMAIN a THEN a[k] ELSE b[k]]
Overlay(a, b) ==
  [k \in (DOMAIN a) \cup (DOMAIN b) |-> IF k \in DOMAIN b THEN b[k] ELSE a[k]]

\* the returned map for a user map um, after resolveImportMap if it ran
MapFor(um) ==
  [present |-> TRUE, imports |-> Overlay(CanonicalImports, um.imports),
   hasScopes |-> um.hasScopes, scopes |-> um.scopes]

MapInit ==
  /\ userMap0 \in {NoMap} \cup UserMaps
  /\ userMap = userMap0
  /\ url \in {NoUrl} \cup {[present |-> TRUE, href |-> b] : b \in BaseUrls}
  /\ (~userMap0.present => ~url.present)
  /\ imap = NoMap
  /\ ipc = "call"

\* getImportMap() without a user map
GetDefaultMap ==
  /\ ipc = "call"
  /\ ~userMap.present
  /\ imap' = [present |-> TRUE, imports |-> CanonicalImports,
              hasScopes |-> FALSE, scopes |-> <<>>]
  /\ ipc' = "done"
  /\ UNCHANGED <<userMap, userMap0, url>>
  /\ UNCHANGED <<runVars, upVars, mergeVars, heapVars, raceVars, cliVars>>

\* getImportMap(userMap) without a url: nothing is resolved
GetUserMap ==
  /\ ipc = "call"
  /\ userMap.present
  /\ ~url.present
  /\ imap' = MapFor(userMap)
  /\ ipc' = "done"
  /\ UNCHANGED <<userMap, userMap0, url>>
  /\ UNCHANGED <<runVars, upVars, mergeVars, heapVars, raceVars, cliVars>>

\* getImportMap(userMap, url): userMap is resolved in place, then overlaid
GetResolvedMap(ord, sord) ==
  /\ ipc = "call"
  /\ userMap.present
  /\ url.present
  /\ ResolveImportMap(userMap, url.href, ord, sord).ok
  /\ userMap' = ResolveImportMap(userMap, url.href, ord, sord).map
  /\ imap' = MapFor(userMap')
  /\ ipc' = "done"
  /\ UNCHANGED <<userMap0, url>>
  /\ UNCHANGED <<runVars, upVars, mergeVars, heapVars, raceVars, cliVars>>

\* getImportMap(userMap, url) with a target that is no URL: the TypeError
\* leaves getImportMap, userMap stays as far as it was rewritten
GetMapThrows(ord, sord) ==
  /\ ipc = "call"
  /\ userMap.present
  /\ url.present
  /\ ~ResolveImportMap(userMap, url.href, ord, sord).ok
  /\ userMap' = ResolveImportMap(userMap, url.href, ord, sord).map
  /\ ipc' = "threw"
  /\ UNCHANGED <<userMap0, url, imap>>
  /\ UNCHANGED <<runVars, upVars, mergeVars, heapVars, raceVars, cliVars>>

MapNext ==
  \/ GetDefaultMap
  \/ GetUserMap
  \/ \E ord \in Orders(Specifiers), sord \in Orders(ScopeKeys) :
       GetResolvedMap(ord, sord)
  \/ \E ord \in Orders(Specifiers), sord \in Orders(ScopeKeys) :
       GetMapThrows(ord, sord)

(***************************************************************************)
(* The import-map command, cli/import_map.ts                               *)
(***************************************************************************)
\* What the file argument names: a path of the file system or a URL, and
\* there nothing, a text that is no JSON, the JSON null, a JSON object
\* without imports, or an import map.
Places == {"path", "url"}
NoFile == [place |-> "path", kind |-> "missing", map |-> NoMap]
Files ==
  {[place |-> pl, kind |-> k, map |-> NoMap] :
     pl \in Places, k \in {"missing", "garbage", "null", "noimports"}}
  \cup {[place |-> pl, kind |-> "map", map |-> m] :
          pl \in Places, m \in UserMaps}

\* toUrl(file): a URL as it is, a path as the file: URL of its real path
MapUrl(f) == IF f.place = "path" THEN BaseFile ELSE BaseDir

\* what Deno.writeTextFile leaves at the file: JSON.stringify(importMap),
\* which has no scopes member when importMap.scopes is undefined
Stringify(f, m) ==
  [place |-> f.place, kind |-> "map",
   map |-> [present |-> TRUE, imports |-> m.imports,
            hasScopes |-> m.hasScopes,
            scopes |-> IF m.hasScopes THEN m.scopes ELSE <<>>]]

\* updated is false from line 13 on and true once line 20 is passed
UpdatedAlways(at) == TRUE
Updated(at) == at = "resolve"

Report(upd) ==
  IF upd THEN "Updated the file" ELSE "Created a new import map file"

CliInit ==
  /\ file0 \in Files
  /\ file = file0
  /\ updated = FALSE
  /\ report = ""
  /\ kpc = "start"

\* realPath, fetch or text() rejects: there is nothing to read
CliReadFails ==
  /\ kpc = "start"
  /\ file.kind = "missing"
  /\ kpc' = "catch"
  /\ UNCHANGED <<file, file0, updated, report>>
  /\ UNCHANGED <<runVars, upVars, mergeVars, heapVars, mapVars, raceVars>>

\* JSON.parse throws a SyntaxError
CliParseFails ==
  /\ kpc = "start"
  /\ file.kind = "garbage"
  /\ kpc' = "catch"
  /\ UNCHANGED <<file, file0, updated, report>>
  /\ UNCHANGED <<runVars, upVars, mergeVars, heapVars, mapVars, raceVars>>

\* the parsed object has no imports: Object.entries(undefined) in
\* resolveSpecifierMap throws a TypeError out of getImportMap
CliShapeThrows ==
  /\ kpc = "start"
  /\ file.kind = "noimports"
  /\ kpc' = "catch"
  /\ UNCHANGED <<file, file0, updated, report>>
  /\ UNCHANGED <<runVars, upVars, mergeVars, heapVars, mapVars, raceVars>>

\* lines 16-19 up to the call getImportMap(parsedMap, mapUrl)
CliParsed ==
  /\ kpc = "start"
  /\ file.kind \in {"null", "map"}
  /\ userMap' = file.map
  /\ userMap0' = file.map
  /\ url' = [present |-> TRUE, href |-> MapUrl(file)]
  /\ imap' = NoMap
  /\ ipc' = "call"
  /\ kpc' = "resolve"
  /\ UNCHANGED <<file, file0, updated, report>>
  /\ UNCHANGED <<runVars, upVars, mergeVars, heapVars, raceVars>>

\* the catch block up to the call getImportMap()
CliCatch ==
  /\ \/ kpc = "catch"
     \/ kpc = "resolve" /\ ipc = "threw"
  /\ userMap' = NoMap
  /\ userMap0' = NoMap
  /\ url' = NoUrl
  /\ imap' = NoMap
  /\ ipc' = "call"
  /\ kpc' = "fallback"
  /\ UNCHANGED <<file, file0, updated, report>>
  /\ UNCHANGED <<runVars, upVars, mergeVars, heapVars, raceVars>>

\* getImportMap has returned to line 19 or to line 22
CliGot ==
  /\ kpc \in {"resolve", "fallback"}
  /\ ipc = "done"
  /\ updated' = Updated(kpc)
  /\ kpc' = "write"
  /\ UNCHANGED <<file, file0, report>>
  /\ UNCHANGED <<runVars, upVars, mergeVars, heapVars, mapVars, raceVars>>

\* lines 25-32: the file is written and the line is logged
CliWrites ==
  /\ kpc = "write"
  /\ file' = Stringify(file, imap)
  /\ report' = Report(updated)
  /\ kpc' = "done"
  /\ UNCHANGED <<file0, updated>>
  /\ UNCHANGED <<runVars, upVars, mergeVars, heapVars, mapVars, raceVars>>

\* ensureDir or writeTextFile rejects and so does the command
CliWriteFails ==
  /\ kpc = "write"
  /\ kpc' = "failed"
  /\ UNCHANGED <<file, file0, updated, report>>
  /\ UNCHANGED <<runVars, upVars, mergeVars, heapVars, mapVars, raceVars>>

CliNext ==
  \/ CliReadFails
  \/ CliParseFails
  \/ CliShapeThrows
  \/ CliParsed
  \/ GetDefaultMap
  \/ \E ord \in Orders(Specifiers), sord \in Orders(ScopeKeys) :
       GetResolvedMap(ord, sord)
  \/ \E ord \in Orders(Specifiers), sord \in Orders(ScopeKeys) :
       GetMapThrows(ord, sord)
  \/ CliCatch
  \/ CliGot
  \/ CliWrites
  \/ CliWriteFails

vars == <<runVars, upVars, mergeVars, restVars>>

Handles == 1..MaxItems

(***************************************************************************)
(* Array helpers with the semantics of Array.prototype.                    *)
(***************************************************************************)
\* executing.indexOf(p): index of the first occurrence (0-based), or -1
IndexOfByValue(arr, h) ==
  IF \E k \in 1..Len(arr) : items[arr[k]] = items[h]
    THEN (CHOOSE k \in 1..Len(arr) :
            /\ items[arr[k]] = items[h]
            /\ \A j \in 1..(k - 1) : items[arr[j]] # items[h]) - 1
    ELSE -1
IndexOf(arr, h) ==
  IF \E k \in 1..Len(arr) : arr[k] = h
    THEN (CHOOSE k \in 1..Len(arr) :
            arr[k] = h /\ \A j \in 1..(k - 1) : arr[j] # h) - 1
    ELSE -1

\* arr.splice(start, 1): a negative start counts from the end of the array
Splice(arr, start) ==
  LET n == Len(arr)
      s == IF start < 0 THEN (IF n + start < 0 THEN 0 ELSE n + start)
                        ELSE (IF start > n THEN n ELSE start)
  IN [k \in 1..(IF s < n THEN n - 1 ELSE n) |->
        IF k <= s THEN arr[k] ELSE arr[k + 1]]

SeqToSet(arr) == {arr[k] : k \in 1..Len(arr)}

\* Promise.race(arr) at the moment of the call: it settles as the first
\* already settled element does, and stays pending when there is none
RaceOf(arr, ps) ==
  IF \E k \in 1..Len(arr) : ps[arr[k]] # "pending"
    THEN ps[arr[CHOOSE k \in 1..Len(arr) :
                  /\ ps[arr[k]] # "pending"
                  /\ \A j \in 1..(k - 1) : ps[arr[j]] = "pending"]]
    ELSE "pending"

AllOfFirst(arr, ps) == RaceOf(arr, ps)
\* Promise.all(arr): rejected as soon as one element is, fulfilled when all are
AllOf(arr, ps) ==
  IF \E k \in 1..Len(arr) : ps[arr[k]] = "rejected" THEN "rejected"
  ELSE IF \A k \in 1..Len(arr) : ps[arr[k]] = "fulfilled" THEN "fulfilled"
  ELSE "pending"

\* the state of the awaited combinator after the promises changed to ps
Settle(ps) ==
  IF waitState # "pending" THEN waitState
  ELSE IF pc = "race" THEN RaceOf(awaited, ps)
  ELSE IF pc = "all" THEN AllOf(awaited, ps)
  ELSE waitState

(***************************************************************************)
(* concurrent(iterable, iteratorFn, limit)                                 *)
(***************************************************************************)
RunInit ==
  /\ items \in UNION {[1..k -> ItemValues] : k \in 0..MaxItems}
  /\ limit \in 1..MaxLimit
  /\ next = 0
  /\ worker = [i \in Handles |-> "idle"]
  /\ p = [i \in Handles |-> "none"]
  /\ executing = <<>>
  /\ invoked = [i \in Handles |-> 0]
  /\ pc = "loop"
  /\ awaited = <<>>
  /\ waitState = "none"

\* for await (const item of iterable): the source still yields an item
HasNextSkipsLast(n, its) == n + 1 < Len(its)
HasNext(n, its) == n < Len(its)

\* if (executing.length >= limit)
MustWaitAbove(len, lim) == len > lim
MustWait(len, lim) == len >= lim

\* One iteration of the for-await loop: call iteratorFn(item), attach the
\* continuation, push p, and with the array full await Promise.race.
StartWorker(i, exec) ==
  /\ next' = i
  /\ worker' = [worker EXCEPT ![i] = "pending"]
  /\ p' = [p EXCEPT ![i] = "pending"]
  /\ invoked' = [invoked EXCEPT ![i] = @ + 1]
  /\ executing' = Append(exec, i)

Pull ==
  /\ UNCHANGED <<upVars, mergeVars, restVars>>
  /\ pc = "loop"
  /\ HasNext(next, items)
  /\ StartWorker(next + 1, executing)
  /\ IF MustWait(Len(executing'), limit)
       THEN /\ pc' = "race"
            /\ awaited' = executing'
            /\ waitState' = RaceOf(executing', p')
       ELSE UNCHANGED <<pc, awaited, waitState>>
  /\ UNCHANGED <<items, limit>>

\* The source is exhausted: await Promise.all(executing)
Exhausted ==
  /\ UNCHANGED <<upVars, mergeVars, restVars>>
  /\ pc = "loop"
  /\ ~HasNext(next, items)
  /\ pc' = "all"
  /\ awaited' = executing
  /\ waitState' = AllOf(executing, p)
  /\ UNCHANGED <<items, limit, next, worker, p, executing, invoked>>

\* The promise returned by iteratorFn(item i) is fulfilled / rejected
WorkerSucceeds(i) ==
  /\ UNCHANGED <<upVars, mergeVars, restVars>>
  /\ worker[i] = "pending"
  /\ worker' = [worker EXCEPT ![i] = "fulfilled"]
  /\ UNCHANGED <<items, limit, next, p, executing, invoked, pc, awaited,
                 waitState>>

WorkerFails(i) ==
  /\ UNCHANGED <<upVars, mergeVars, restVars>>
  /\ worker[i] = "pending"
  /\ worker' = [worker EXCEPT ![i] = "rejected"]
  /\ UNCHANGED <<items, limit, next, p, executing, invoked, pc, awaited,
                 waitState>>

\* what the reaction of .then(onFulfilled) does to the array
OnFulfilledKeeps(arr, i) == arr
OnFulfilled(arr, i) == Splice(arr, IndexOf(arr, i))
OnRejectedRemoves(arr, i) == Splice(arr, IndexOf(arr, i))
OnRejected(arr, i) == arr

\* where concurrent() stands after a worker was rejected: nothing is attached
\* to the rejection, the function stays where it is until a wait observes it
PcAfterRejectionThrows(at) == "threw"
PcAfterRejection(at) == at

\* .then(() => executing.splice(executing.indexOf(p), 1)) runs, p is fulfilled
Continuation(i) ==
  /\ UNCHANGED <<upVars, mergeVars, restVars>>
  /\ worker[i] = "fulfilled"
  /\ p[i] = "pending"
  /\ executing' = OnFulfilled(executing, i)
  /\ p' = [p EXCEPT ![i] = "fulfilled"]
  /\ waitState' = Settle(p')
  /\ UNCHANGED <<items, limit, next, worker, invoked, pc, awaited>>

\* .then() has no rejection handler: p is rejected as the worker was, and the
\* continuation does not run
PassThrough(i) ==
  /\ UNCHANGED <<upVars, mergeVars, restVars>>
  /\ worker[i] = "rejected"
  /\ p[i] = "pending"
  /\ executing' = OnRejected(executing, i)
  /\ p' = [p EXCEPT ![i] = "rejected"]
  /\ waitState' = Settle(p')
  /\ pc' = PcAfterRejection(pc)
  /\ UNCHANGED <<items, limit, next, worker, invoked, awaited>>

\* await Promise.race(executing) resumes the loop, or throws
RaceResumes ==
  /\ UNCHANGED <<upVars, mergeVars, restVars>>
  /\ pc = "race"
  /\ waitState = "fulfilled"
  /\ pc' = "loop"
  /\ waitState' = "none"
  /\ awaited' = <<>>
  /\ UNCHANGED <<items, limit, next, worker, p, executing, invoked>>

RaceThrows ==
  /\ UNCHANGED <<upVars, mergeVars, restVars>>
  /\ pc = "race"
  /\ waitState = "rejected"
  /\ pc' = "threw"
  /\ UNCHANGED <<items, limit, next, worker, p, executing, invoked, awaited,
                 waitState>>

\* await Promise.all(executing) returns, or throws
AllReturns ==
  /\ UNCHANGED <<upVars, mergeVars, restVars>>
  /\ pc = "all"
  /\ waitState = "fulfilled"
  /\ pc' = "returned"
  /\ UNCHANGED <<items, limit, next, worker, p, executing, invoked, awaited,
                 waitState>>

AllThrows ==
  /\ UNCHANGED <<upVars, mergeVars, restVars>>
  /\ pc = "all"
  /\ waitState = "rejected"
  /\ pc' = "threw"
  /\ UNCHANGED <<items, limit, next, worker, p, executing, invoked, awaited,
                 waitState>>

RunNext ==
  \/ Pull
  \/ Exhausted
  \/ \E i \in Handles : WorkerSucceeds(i)
  \/ \E i \in Handles : WorkerFails(i)
  \/ \E i \in Handles : Continuation(i)
  \/ \E i \in Handles : PassThrough(i)
  \/ RaceResumes
  \/ RaceThrows
  \/ AllReturns
  \/ AllThrows

(***************************************************************************)
(* Claims about concurrent()                                               *)
(***************************************************************************)
\* worker invocations that were started and have not settled yet
Unresolved == {i \in Handles : worker[i] = "pending"}
Started == {i \in Handles : worker[i] # "idle"}

\* C1: at every instant of a run the number of worker invocations that were
\* started and have not yet resolved is at most the limit L (L >= 1), whatever
\* the item count and the order in which the workers complete.
C1_BoundedConcurrency ==
  /\ Cardinality(Unresolved) <= limit
  /\ Len(executing) <= limit

\* the limit is reached with items still waiting in the source
C1_Witness ==
  /\ pc = "race"
  /\ Cardinality(Unresolved) = limit
  /\ next < Len(items)
  /\ limit >= 2

\* C2: every pulled item had its worker invoked exactly once, no unpulled
\* item was invoked, and a run that returned without a failed worker made
\* exactly K invocations, one per item of the source.
C2_ExactlyOnce ==
  /\ \A i \in Handles : invoked[i] = (IF i <= next THEN 1 ELSE 0)
  /\ (pc = "returned" /\ \A i \in Handles : worker[i] # "rejected")
       => \A i \in 1..Len(items) : invoked[i] = 1

C2_Witness ==
  /\ pc = "returned"
  /\ Len(items) >= 3
  /\ limit = 2
  /\ \A i \in 1..Len(items) : invoked[i] = 1

\* C3: concurrent() has returned successfully only if the source is exhausted
\* and every started worker invocation (and its derived promise) has settled.
C3_ReturnsOnlyWhenDone ==
  pc = "returned" =>
    /\ next = Len(items)
    /\ \A i \in 1..Len(items) : worker[i] # "idle"
    /\ \A i \in Handles : worker[i] # "pending" /\ p[i] # "pending"

C3_Witness ==
  /\ pc = "returned"
  /\ Len(items) >= 2
  /\ limit > Len(items)
  /\ \A i \in 1..Len(items) : worker[i] = "fulfilled"

\* C4: concurrent() never returns successfully in a run in which a started
\* worker has failed.
C4_FailureFailsRun ==
  pc = "returned" => \A i \in Handles : worker[i] # "rejected"

\* the run threw on a failed worker although other workers succeeded
C4_Witness ==
  /\ pc = "threw"
  /\ \E i \in Handles : worker[i] = "rejected"
  /\ \E i \in Handles : p[i] = "fulfilled"

InFlight == SeqToSet(executing)

\* C14 as stated: the handle of every settled invocation, successful or
\* failed, has left the in-flight set.
C14_Original ==
  \A i \in Handles : p[i] \in {"fulfilled", "rejected"} => i \notin InFlight

\* C14 (amended): the continuation attached at start deregisters the handle of
\* an invocation that succeeded; it does not run for an invocation that
\* failed, whose handle stays in the in-flight set.
C14_DeregisteredOnSuccessOnly ==
  \A i \in Handles :
    /\ p[i] = "fulfilled" => i \notin InFlight
    /\ p[i] = "rejected" => i \in InFlight

\* one invocation succeeded and left the set, another failed and is still in it
C14_Witness ==
  /\ \E i \in Handles : p[i] = "fulfilled" /\ i \notin InFlight
  /\ \E i \in Handles : p[i] = "rejected" /\ i \in InFlight
  /\ pc = "loop"

\* C15 as stated: a run that failed has returned the failure only after every
\* started invocation resolved.
C15_Original ==
  pc = "threw" => \A i \in Handles : worker[i] # "pending"

\* C15 (amended): a run fails as soon as a wait observes a failed handle, also
\* while other started invocations are unresolved; what a failed run has in
\* common is a failed handle in the in-flight set, and only the successful
\* return waits for every invocation.
C15_FailsOnFailedHandle ==
  /\ pc = "threw" => \E i \in InFlight : p[i] = "rejected"
  /\ pc = "returned" => \A i \in Handles : worker[i] # "pending"

\* the run failed while another started worker was still running
C15_Witness ==
  /\ pc = "threw"
  /\ \E i \in Handles : worker[i] = "pending"
  /\ \E i \in InFlight : p[i] = "rejected"

\* C16: the in-flight set holds each started, not yet deregistered invocation
\* exactly once, so a continuation has removed its own handle and no other,
\* also with value-equal items in flight.
C16_OwnHandleOnly ==
  /\ InFlight = {i \in Handles : p[i] \in {"pending", "rejected"}}
  /\ \A j, k \in 1..Len(executing) : executing[j] = executing[k] => j = k

\* of two value-equal items in flight the second completed first
C16_Witness ==
  /\ Len(items) >= 2
  /\ items[1] = items[2]
  /\ p[1] = "pending" /\ p[2] = "fulfilled"
  /\ executing = <<1>>

\* C17: with a finite source and workers that all succeed, under fair
\* scheduling every wait for a free slot is resumed and the run returns.
C17_EventuallyReturns ==
  /\ <>(pc = "returned")
  /\ (pc = "race") ~> (pc = "loop")

\* a run with limit 1, which suspends after every item, has returned
C17_Witness ==
  /\ pc = "returned"
  /\ limit = 1
  /\ Len(items) >= 2
  /\ \A i \in 1..Len(items) : p[i] = "fulfilled"

\* C18: a failure does not fail the run when it happens: the step in which a
\* worker or its handle is rejected leaves concurrent() where it is, and the
\* run fails only in a step taken from a wait (Promise.race or Promise.all)
\* that was rejected.
C18_FailsOnlyAtWait ==
  [][/\ (pc' = "threw" /\ pc # "threw") =>
          (pc \in {"race", "all"} /\ waitState = "rejected")
     /\ (\E i \in Handles : p[i] = "pending" /\ p'[i] = "rejected") =>
          pc' = pc
     /\ (\E i \in Handles : worker[i] = "pending" /\ worker'[i] = "rejected")
          => pc' = pc]_vars

\* after a failure the loop went on and started another worker
C18_Witness ==
  /\ pc = "loop"
  /\ p[1] = "rejected"
  /\ worker[2] = "pending"
  /\ next = 2

(***************************************************************************)
(* Claims about mustNotifyUpgrade()                                        *)
(***************************************************************************)
Called == {c \in Calls : cpc[c] # "idle"}
Checked == {c \in Calls : fetches[c] > 0}
NonLocal == ~StartsWith(GetCurrentVersion(pathname), <<"l", "o", "c", "a", "l">>)

\* C5: within one process, overlapping calls included, any two network checks
\* made through the persisted entry are at least 24 hours apart, and so is a
\* network check from the check the entry recorded when the process started.
C5_OneCheckPerWindow ==
  /\ \A a, b \in Checked : a < b => ctime[b] - ctime[a] >= 1000 * 60 * 60 * 24
  /\ \A a \in Checked :
       /\ fetches[a] = 1
       /\ storage0.set =>
            ctime[a] - ParseInt(storage0.value).n >= 1000 * 60 * 60 * 24

\* a second call was made while the first fetch was pending, and a third call
\* reached the network a day later
C5_Witness ==
  /\ cpc[1] = "fetching"
  /\ cpc[2] = "done" /\ fetches[2] = 0
  /\ cpc[3] = "fetching"
  /\ ctime[3] - ctime[1] >= 1000 * 60 * 60 * 24

\* C6: on a non-local version, a check that finds a timestamp less than 24h
\* old returns none without a network call; a check that finds no timestamp or
\* one that is 24h old or older (exactly 24h included) issues exactly one
\* network call, to one of the two endpoints.
C6_WindowDecides ==
  NonLocal =>
    \A c \in Called :
      IF cseen[c] >= 0 /\ ccalled[c] - cseen[c] < 1000 * 60 * 60 * 24
        THEN /\ cpc[c] = "done"
             /\ cres[c] = NoInfo
             /\ fetches[c] = 0
             /\ cend[c] = "none"
        ELSE /\ fetches[c] = 1
             /\ cend[c] \in {"versions", "commits"}

\* one check was suppressed, another one made exactly 24h after the recorded
\* check reached the network
C6_Witness ==
  \E a, b \in Called :
    /\ cseen[a] >= 0 /\ fetches[a] = 0
    /\ ccalled[b] - cseen[b] = 1000 * 60 * 60 * 24
    /\ fetches[b] = 1

\* C7: a failed fetch leaves the call failed without a result and the written
\* timestamp in place, and every later check made less than 24h after the
\* failed one returns none without a network call.
C7_FailureKeepsTimestamp ==
  \A c \in Calls :
    cpc[c] = "threw" =>
      /\ cres[c] = NoInfo
      /\ storage.set
      /\ ParseInt(storage.value).n >= ctime[c]
      /\ \A b \in Called :
           (b > c /\ ccalled[b] - ctime[c] < 1000 * 60 * 60 * 24) =>
             /\ cpc[b] = "done"
             /\ cres[b] = NoInfo
             /\ fetches[b] = 0

\* the first check failed and a check made later in the window was suppressed
C7_Witness ==
  /\ cpc[1] = "threw"
  /\ cpc[2] = "done" /\ fetches[2] = 0
  /\ ccalled[2] > ctime[1]
  /\ ccalled[2] - ctime[1] < 1000 * 60 * 60 * 24

\* the tags of the modelled pathnames: "v1.2" matches /^v\d+\./, the others
\* ("v1", "abc", "h") do not
StableInstance == pathname = PathStable
CurrentOf ==
  CASE pathname = PathStable -> <<"v", "1", ".", "2">>
    [] pathname = PathNoDot -> <<"v", "1">>
    [] pathname = PathDev -> <<"a", "b", "c">>
    [] pathname = PathAtDir -> <<"h">>
    [] OTHER -> <<>>

\* C8: a check that goes to the network fetches from the metadata endpoint only
\* when the current version is stable and from the commit endpoint only when
\* it is not; it returns none when current equals latest, otherwise
\* {current, latest, command} with the upgrade command of the branch taken.
C8_LookupAndResult ==
  \A c \in Checked :
    /\ cend[c] = (IF StableInstance THEN "versions" ELSE "commits")
    /\ cpc[c] = "done" =>
         IF cgot[c] = CurrentOf THEN cres[c] = NoInfo
         ELSE cres[c] = [none |-> FALSE, current |-> CurrentOf,
                         latest |-> cgot[c],
                         command |-> IF StableInstance
                                       THEN "lume upgrade"
                                       ELSE "lume upgrade --dev"]

\* a development version was told to upgrade, with the development command
C8_Witness ==
  \E c \in Checked :
    /\ cpc[c] = "done"
    /\ pathname = PathNoDot
    /\ cres[c] = [none |-> FALSE, current |-> <<"v", "1">>,
                  latest |-> <<"a", "b", "c">>,
                  command |-> "lume upgrade --dev"]

\* C9: on a local, untagged copy the check returns none and does nothing else:
\* it neither reads nor writes the persisted timestamp, which stays as it was,
\* and issues no network call.
C9_LocalDoesNothing ==
  pathname = PathLocal =>
    /\ storage = storage0
    /\ \A c \in Calls :
         /\ cpc[c] \in {"idle", "done"}
         /\ cres[c] = NoInfo
         /\ reads[c] = 0 /\ writes[c] = 0 /\ fetches[c] = 0
         /\ cend[c] = "none"

\* a local copy was checked with a timestamp in the entry that is a day old
C9_Witness ==
  /\ pathname = PathLocal
  /\ cpc[1] = "done" /\ cpc[2] = "done"
  /\ storage0.set
  /\ now - ParseInt(storage0.value).n >= 1000 * 60 * 60 * 24

\* the time of the last network check made before call c, taken from the
\* calls themselves and from the entry the process started with; -1 if none
StartChecks == IF storage0.set THEN {ParseInt(storage0.value).n} ELSE {}
EarlierChecks(c, start) == {ctime[b] : b \in {a \in Checked : a < c}} \cup start
LastCheckBefore(c, start) ==
  LET earlier == EarlierChecks(c, start)
  IN IF earlier = {} THEN -1
     ELSE CHOOSE t \in earlier : \A o \in earlier : o <= t

\* C20: a suppressed check leaves the persisted timestamp as it is, so the
\* entry always holds the time of the last check that reached the network,
\* and a call made 24h or more after that check is never suppressed, however
\* many suppressed calls came in between.
C20_WindowFromLastNetworkCheck ==
  NonLocal =>
    LET start == StartChecks
        last == LastCheckBefore(MaxCalls + 1, start)
    IN /\ IF last < 0 THEN ~storage.set
          ELSE storage.set /\ ParseInt(storage.value).n = last
       /\ \A c \in Called :
            LET before == LastCheckBefore(c, start)
            IN (before >= 0 /\ ccalled[c] - before >= 1000 * 60 * 60 * 24)
                 => fetches[c] = 1

\* two checks were suppressed, then a check made exactly 24h after the last
\* network check went to the network
C20_Witness ==
  /\ cpc[1] = "done" /\ fetches[1] = 0
  /\ cpc[2] = "done" /\ fetches[2] = 0
  /\ fetches[3] = 1
  /\ ccalled[3] - ParseInt(storage0.value).n = 1000 * 60 * 60 * 24

\* C19: with two processes racing on the entry there is at worst one extra
\* network check: of any three network checks the first and the third are at
\* least 24h apart, so no 24h window holds more than two, and the entry holds
\* the timestamp that one of the processes wrote, the later one.
C19_OneExtraCheck ==
  /\ \A k \in 1..(Len(rlog) - 2) :
       rlog[k + 2] - rlog[k] >= 1000 * 60 * 60 * 24
  /\ rlog # <<>> =>
       /\ rstore.set
       /\ ParseInt(rstore.value).n = rlog[Len(rlog)]

\* both processes read the entry before either wrote and both went to the
\* network; the next call of each was suppressed
C19_Witness ==
  /\ Len(rlog) = 2
  /\ rlog[2] - rlog[1] < 1000 * 60 * 60 * 24
  /\ \A q \in Procs : rcalls[q] = 2 /\ rpc[q] = "idle"

(***************************************************************************)
(* Claims about merge()                                                    *)
(***************************************************************************)
\* the reference rule, key by key
RECURSIVE RefMerge(_, _)
RefMerge(d, u) ==
  [k \in (DOMAIN d) \cup (DOMAIN u) |->
     IF k \notin DOMAIN u THEN d[k]
     ELSE IF k \in DOMAIN d /\ d[k].kind = "map" /\ u[k].kind = "map"
       THEN [kind |-> "map", val |-> RefMerge(d[k].val, u[k].val)]
     ELSE u[k]]

C11_InputsUnchanged ==
  hpc = "done" =>
    /\ \A a \in 1..Len(heap0) : heap[a] = heap0[a]
    /\ ValueAt(heap, hdefaults) = ValueAt(heap0, hdefaults)
    /\ huser # 0 => ValueAt(heap, huser) = ValueAt(heap0, huser)

\* both arguments hold different nested objects at key "a"; the result holds
\* a third, new object there
C11_Witness ==
  /\ hpc = "done"
  /\ huser = 2
  /\ "a" \in DOMAIN heap0[1] /\ heap0[1]["a"] = RefV(3)
  /\ "a" \in DOMAIN heap0[2] /\ heap0[2]["a"] = RefV(4)
  /\ heap0[3] # heap0[4]
  /\ heap[hmerged]["a"].val > Len(heap0)

\* the object version returns the tree the value version returns
HeapAgreesWithMerge ==
  hpc = "done" =>
    ValueAt(heap, hmerged) =
      Merge(ValueAt(heap0, hdefaults),
            IF huser = 0 THEN Absent ELSE Present(ValueAt(heap0, huser)))

(***************************************************************************)
(* Import maps                                                             *)
(***************************************************************************)
\* the hrefs, written out: what each target is as a URL read at each base
ExpectedHref(t, base) ==
  CASE t = RelDot /\ base = BaseDir ->
         <<"https:", "", "example.com", "project", "bar.js">>
    [] t = RelDot /\ base = BaseFile -> <<"file:", "", "", "p", "bar.js">>
    [] t = RelUp /\ base = BaseDir -> <<"https:", "", "example.com", "x.js">>
    [] t = RelUp /\ base = BaseFile -> <<"file:", "", "", "x.js">>
    [] t = RelRoot /\ base = BaseDir -> <<"https:", "", "example.com", "r.js">>
    [] t = RelRoot /\ base = BaseFile -> <<"file:", "", "", "r.js">>
    [] t = AbsNorm -> <<"https:", "", "cdn", "x.js">>
    [] t = AbsDots -> <<"https:", "", "cdn", "x.js">>

\* relative targets as read at the url of the call, targets with a scheme kept
KeptIfAbsolute(t) == IF HasScheme(t) THEN t ELSE ExpectedHref(t, url.href)

\* every target as read at the url of the call
ReadAtUrl(t) == ExpectedHref(t, url.href)

\* every target as read at the url of the call, as supplied without a url
Supplied(t) == IF url.present THEN ExpectedHref(t, url.href) ELSE t

\* new holds the specifiers of old, each with its target rewritten by F
Rewritten(new, old, F(_)) ==
  /\ DOMAIN new = DOMAIN old
  /\ \A k \in DOMAIN old : new[k] = F(old[k])

\* new holds the specifiers and the scopes of old, each target rewritten by F
\* where it stood
MapRewritten(new, old, F(_)) ==
  /\ Rewritten(new.imports, old.imports, F)
  /\ new.hasScopes = old.hasScopes
  /\ DOMAIN new.scopes = DOMAIN old.scopes
  /\ \A sc \in DOMAIN old.scopes : Rewritten(new.scopes[sc], old.scopes[sc], F)

\* C12 as stated: when resolveImportMap has run, every relative target of
\* imports and of each scope is the URL it resolves to against baseUrl, every
\* target that was absolute is unchanged, and the specifiers and scopes are
\* those of the argument, each entry where it stood.
C12_Original ==
  (ipc = "done" /\ url.present) => MapRewritten(userMap, userMap0, KeptIfAbsolute)

\* C12: when resolveImportMap has returned, every target of imports and of
\* each scope is the href of new URL(target, baseUrl): a relative target is
\* resolved against baseUrl, an absolute target is replaced by its normalised
\* form (unchanged only if it was normalised already); the specifiers and
\* scopes are those of the argument, each entry where it stood.
C12_TargetsBecomeHrefs ==
  (ipc = "done" /\ url.present) => MapRewritten(userMap, userMap0, ReadAtUrl)

\* a relative import, an absolute import that is not normalised, and two
\* scopes that map the same specifier to different targets
C12_Witness ==
  /\ ipc = "done"
  /\ url.present /\ url.href = BaseDir
  /\ DOMAIN userMap0.imports = {"foo", "lume"}
  /\ userMap0.imports["foo"] = RelDot
  /\ userMap0.imports["lume"] = AbsDots
  /\ userMap.imports["foo"] =
       <<"https:", "", "example.com", "project", "bar.js">>
  /\ userMap.imports["lume"] = <<"https:", "", "cdn", "x.js">>
  /\ userMap0.hasScopes /\ DOMAIN userMap0.scopes = ScopeKeys
  /\ userMap0.scopes["/a/"] = [k \in {"foo"} |-> RelUp]
  /\ userMap0.scopes["/b/"] = [k \in {"foo"} |-> AbsNorm]
  /\ userMap.scopes["/a/"]["foo"] = <<"https:", "", "example.com", "x.js">>
  /\ userMap.scopes["/b/"]["foo"] = AbsNorm

\* the three entries of the tool's own map, written out
LumeRoot == <<"https:", "", "deno.land", "x", "lume", "">>
LumeMod == <<"https:", "", "deno.land", "x", "lume", "mod.ts">>
CanonicalKeys == {"lume", "lume/", "https://deno.land/x/lume/"}
CanonicalTable == [k \in CanonicalKeys |-> IF k = "lume" THEN LumeMod ELSE LumeRoot]

\* C13: getImportMap without a user map returns the three canonical imports
\* and no scopes; with a user map its imports are the canonical entries and
\* the user's, the user's target at every specifier the user defines and the
\* canonical target at the others, and its scopes are the user's; the user's
\* targets are resolved against url when url is given, as supplied otherwise.
C13_CanonicalOverlaid ==
  ipc = "done" =>
    IF ~userMap0.present
      THEN /\ imap.imports = CanonicalTable
           /\ ~imap.hasScopes
           /\ imap.scopes = <<>>
      ELSE /\ DOMAIN imap.imports = CanonicalKeys \cup DOMAIN userMap0.imports
           /\ \A k \in DOMAIN userMap0.imports :
                imap.imports[k] = Supplied(userMap0.imports[k])
           /\ \A k \in CanonicalKeys \ DOMAIN userMap0.imports :
                imap.imports[k] = CanonicalTable[k]
           /\ imap.hasScopes = userMap0.hasScopes
           /\ imap.scopes = userMap.scopes
           /\ DOMAIN imap.scopes = DOMAIN userMap0.scopes
           /\ \A sc \in DOMAIN userMap0.scopes :
                Rewritten(imap.scopes[sc], userMap0.scopes[sc], Supplied)

\* a user map without url that defines "lume" and brings a scope
C13_Witness ==
  /\ ipc = "done"
  /\ userMap0.present /\ ~url.present
  /\ DOMAIN userMap0.imports = {"lume"}
  /\ userMap0.imports["lume"] = RelDot
  /\ imap.imports["lume"] = RelDot
  /\ imap.imports["lume/"] = LumeRoot
  /\ imap.imports["https://deno.land/x/lume/"] = LumeRoot
  /\ imap.hasScopes /\ DOMAIN imap.scopes = {"/a/"}
  /\ imap.scopes["/a/"] = [k \in {"foo"} |-> RelUp]

(***************************************************************************)
(* The import-map command                                                  *)
(***************************************************************************)
\* the targets that are no URL at any base
Malformed(t) == t = <<"https:", "", "">>

\* reading, parsing and resolving all succeed on what is at the file
AllStepsSucceed(f) ==
  \/ f.kind = "null"
  \/ /\ f.kind = "map"
     /\ \A k \in DOMAIN f.map.imports : ~Malformed(f.map.imports[k])
     /\ \A sc \in DOMAIN f.map.scopes :
          \A k \in DOMAIN f.map.scopes[sc] : ~Malformed(f.map.scopes[sc][k])

\* the canonical map and nothing else, as a document
DefaultDocument ==
  [present |-> TRUE, imports |-> CanonicalTable, hasScopes |-> FALSE,
   scopes |-> <<>>]

\* the map of f read at base and laid over the canonical map, as a document
MergedDocument(f, base) ==
  [present |-> TRUE,
   imports |->
     [k \in CanonicalKeys \cup DOMAIN f.map.imports |->
        IF k \in DOMAIN f.map.imports
          THEN ExpectedHref(f.map.imports[k], base)
          ELSE CanonicalTable[k]],
   hasScopes |-> f.map.hasScopes,
   scopes |->
     [sc \in DOMAIN f.map.scopes |->
        [k \in DOMAIN f.map.scopes[sc] |->
           ExpectedHref(f.map.scopes[sc][k], base)]]]

\* the URL of the file argument
UrlOfPlace(pl) ==
  IF pl = "path" THEN <<"file:", "", "", "p", "map.json">>
  ELSE <<"https:", "", "example.com", "project", "">>

\* C21: when the command has written the file, then, if reading the file,
\* parsing it or resolving it through getImportMap failed, the file holds
\* exactly the canonical map without any entry of the user and the command
\* has reported a new file; if all three succeeded, the file holds the merged
\* map and the command has reported an update. Nothing is written or reported
\* before that.
C21_FallsBackToDefault ==
  /\ kpc = "done" =>
       /\ file.kind = "map" /\ file.place = file0.place
       /\ IF AllStepsSucceed(file0)
            THEN /\ file.map = MergedDocument(file0, UrlOfPlace(file0.place))
                 /\ report = "Updated the file"
            ELSE /\ file.map = DefaultDocument
                 /\ report = "Created a new import map file"
  /\ kpc # "done" => (file = file0 /\ report = "")

\* the file held a relative import and a scope with a malformed target: the
\* import was resolved before the scope threw, and the canonical map alone
\* was written
C21_Witness ==
  /\ kpc = "done"
  /\ file0.kind = "map" /\ file0.place = "path"
  /\ DOMAIN file0.map.imports = {"foo"}
  /\ file0.map.imports["foo"] = RelDot
  /\ file0.map.hasScopes /\ DOMAIN file0.map.scopes = {"/a/"}
  /\ file0.map.scopes["/a/"] = [k \in {"foo"} |-> BadUrl]
  /\ DOMAIN file.map.imports = CanonicalKeys
  /\ ~file.map.hasScopes
  /\ report = "Created a new import map file"
  /\ ~updated

(***************************************************************************)
(* The parts that take no step in a specification rest in these states.    *)
(***************************************************************************)
RunIdle ==
  /\ items = <<>> /\ limit = 1 /\ next = 0
  /\ worker = [i \in Handles |-> "idle"]
  /\ p = [i \in Handles |-> "none"]
  /\ executing = <<>>
  /\ invoked = [i \in Handles |-> 0]
  /\ pc = "idle" /\ awaited = <<>> /\ waitState = "none"

UpIdle ==
  /\ pathname = PathLocal /\ now = StartTime /\ ticks = 0
  /\ storage = NoItem /\ storage0 = NoItem /\ lastCheck = -1
  /\ cpc = [c \in Calls |-> "idle"]
  /\ ccalled = [c \in Calls |-> -1]
  /\ cseen = [c \in Calls |-> -1]
  /\ cend = [c \in Calls |-> "none"]
  /\ ctime = [c \in Calls |-> -1]
  /\ cgot = [c \in Calls |-> <<>>]
  /\ cres = [c \in Calls |-> NoInfo]
  /\ reads = [c \in Calls |-> 0]
  /\ writes = [c \in Calls |-> 0]
  /\ fetches = [c \in Calls |-> 0]

MergeIdle ==
  /\ defaults = <<>> /\ user = Absent /\ merged = <<>> /\ mpc = "idle"

HeapIdle ==
  /\ heap = <<>> /\ heap0 = <<>> /\ hdefaults = 0 /\ huser = 0
  /\ hmerged = 0 /\ hpc = "idle"

MapIdle ==
  /\ userMap = NoMap /\ userMap0 = NoMap /\ url = NoUrl
  /\ imap = NoMap /\ ipc = "idle"

RaceIdle ==
  /\ rstore = NoItem /\ rstore0 = NoItem /\ rnow = StartTime /\ rticks = 0
  /\ rpc = [q \in Procs |-> "idle"]
  /\ rseen = [q \in Procs |-> NoItem]
  /\ rcalls = [q \in Procs |-> 0]
  /\ rlog = <<>>

CliIdle ==
  /\ file = NoFile /\ file0 = NoFile /\ updated = FALSE /\ report = ""
  /\ kpc = "idle"

RestIdle == HeapIdle /\ MapIdle /\ RaceIdle /\ CliIdle
BaseIdle == RunIdle /\ UpIdle /\ MergeIdle

\* concurrent()
Init == RunInit /\ UpIdle /\ MergeIdle /\ RestIdle
Next == RunNext
Spec == Init /\ [][Next]_vars

\* mustNotifyUpgrade()
UpgradeInit == UpInit /\ RunIdle /\ MergeIdle /\ RestIdle
UpgradeNext == UpNext
UpgradeSpec == UpgradeInit /\ [][UpgradeNext]_vars

\* merge()
MergeSpecInit == MergeInit /\ RunIdle /\ UpIdle /\ RestIdle
MergeSpecNext == MergeNext
MergeSpec == MergeSpecInit /\ [][MergeSpecNext]_vars

\* concurrent() with workers that all succeed, under a fair event loop
LiveNext ==
  \/ Pull
  \/ Exhausted
  \/ \E i \in Handles : WorkerSucceeds(i)
  \/ \E i \in Handles : Continuation(i)
  \/ RaceResumes
  \/ AllReturns

Fairness ==
  /\ WF_vars(Pull)
  /\ WF_vars(Exhausted)
  /\ \A i \in Handles : WF_vars(WorkerSucceeds(i))
  /\ \A i \in Handles : WF_vars(Continuation(i))
  /\ WF_vars(RaceResumes)
  /\ WF_vars(AllReturns)

LiveSpec == Init /\ [][LiveNext]_vars /\ Fairness

\* mustNotifyUpgrade() in two processes
RaceSpecInit == RaceInit /\ BaseIdle /\ HeapIdle /\ MapIdle /\ CliIdle
RaceSpecNext == RaceNext
RaceSpec == RaceSpecInit /\ [][RaceSpecNext]_vars

\* merge() on objects with identity
HeapSpecInit == HeapInit /\ BaseIdle /\ MapIdle /\ RaceIdle /\ CliIdle
HeapSpecNext == HeapNext
HeapSpec == HeapSpecInit /\ [][HeapSpecNext]_vars

\* getImportMap()
MapSpecInit == MapInit /\ BaseIdle /\ HeapIdle /\ RaceIdle /\ CliIdle
MapSpecNext == MapNext
MapSpec == MapSpecInit /\ [][MapSpecNext]_vars

\* the import-map command
CliSpecInit == CliInit /\ BaseIdle /\ HeapIdle /\ MapIdle /\ RaceIdle
CliSpecNext == CliNext
CliSpec == CliSpecInit /\ [][CliSpecNext]_vars

====
